---- MODULE Spec2Model ----
(***************************************************************************)
(* A model of the CharacterGraph component (src/unnamed/part_002): the     *)
(* build of the processed graph, the camera transform, the pointer,        *)
(* keyboard and wheel handlers, and the force simulation frame loop;      *)
(* and of what surrounds it: the Home page's submission flow               *)
(* (src/unnamed/part_001), the event streams (src/frontend/utils/api.ts,   *)
(* src/unnamed/part_000) and the book history                              *)
(* (src/frontend/utils/bookHistory.ts), at the end of the module.          *)
(*                                                                         *)
(* Numbers.  The component computes in floating point.  Here every length  *)
(* (screen or world, positions, velocities, translate) is an integer       *)
(* count of 1/Unit pixels and the scale is an integer count of             *)
(* 1/ScaleUnit; products are divided back with Quot, which truncates       *)
(* toward zero.  Statements that the source makes "within floating-point   *)
(* tolerance" are stated with the tolerance Tol.                           *)
(*                                                                         *)
(* React.  `state` holds the component's state with every queued update    *)
(* applied; `rendered` holds the values the last render saw.  The          *)
(* handlers and the frame callback are closures made by effects: they      *)
(* read the values captured when their effect last ran (`handlers`, the    *)
(* records in `frames`), while node objects are shared and mutated in      *)
(* place (`models`).  Commit is one render followed by its effects.        *)
(* Updates made in discrete events (mousedown, mouseup, keydown, keyup,    *)
(* click) are rendered before the event returns; updates made in           *)
(* mousemove, wheel, resize, a change of the graphData prop and in an      *)
(* effect wait for a later Commit.                                         *)
(***************************************************************************)
EXTENDS Integers, Sequences, FiniteSets, TLC

VARIABLES
    state,        \* the component's state and props, queued updates applied
    rendered,     \* the state and props seen by the last render
    models,       \* the ProcessedGraphData objects, by identity
    handlers,     \* the values captured by the registered event handlers
    frames,       \* the pending requestAnimationFrame callbacks
    animationRef, \* animationRef.current (0 is null)
    simCleanup,   \* the simulation effect's last run returned a cleanup
    ticks,        \* the number of frames run so far
    zooms,        \* the number of zoom requests counted against MaxZooms
    event,        \* the handler, callback or render that ran last
    pointer,      \* the pointer's position, in the specifications that follow it
    history,      \* the book history kept in localStorage, parsed
    streams,      \* the event-stream instances, by identity
    sources,      \* the EventSource objects created so far, by identity
    invoked,      \* the callback invocations made by the handler that ran last
    page,         \* the Home page's state and refs
    tasks         \* the page's pending promise continuations

\* the variables of the page, its event streams and its book history
appVars == <<history, streams, sources, invoked, page, tasks>>

vars == <<state, rendered, models, handlers, frames, animationRef, simCleanup, ticks, zooms, event, pointer, appVars>>

----------------------------------------------------------------------------
(* Bounds of the model *)

MaxTicks == 3
MaxModels == 3
MaxFrameIds == 3
MaxZooms == 2
MaxPan == 60

Unit == 2 * 5
ScaleUnit == 10 * 100
Tol == Unit \div 5

----------------------------------------------------------------------------
(* Arithmetic *)

Abs(a) == IF a < 0 THEN -a ELSE a
Min(a, b) == IF a < b THEN a ELSE b
Max(a, b) == IF a > b THEN a ELSE b

\* a / b for b > 0, truncated toward zero
Quot(a, b) == IF a >= 0 THEN a \div b ELSE -((-a) \div b)

RECURSIVE SqrtSearch(_, _, _)
SqrtSearch(n, lo, hi) ==
    IF lo >= hi THEN lo
    ELSE LET mid == (lo + hi + 1) \div 2
         IN IF mid * mid <= n THEN SqrtSearch(n, mid, hi)
                              ELSE SqrtSearch(n, lo, mid - 1)

\* Math.sqrt on a squared length: the largest r with r * r <= n
Sqrt(n) == SqrtSearch(n, 0, Min(n, 46000))

----------------------------------------------------------------------------
(* Values *)

NoNode == -1                      \* dragNode === null
NoModel == 0                      \* processedData === null

NoTooltipNode == [on |-> FALSE, node |-> "", x |-> 0, y |-> 0]
NoTooltipLink == [on |-> FALSE, source |-> "", target |-> "", type |-> "", x |-> 0, y |-> 0]

EmptyModel == [nodes |-> <<>>, links |-> <<>>]

IdentityTransform == [scale |-> ScaleUnit, translateX |-> 0, translateY |-> 0]

\* useState({ width: 800, height: 600 })
InitialDimensions == [width |-> 800 * Unit, height |-> 600 * Unit, fresh |-> FALSE]

\* a graphData prop: absent, or an object whose nodes / links may be missing
NoGraph == [present |-> FALSE, hasNodes |-> FALSE, hasLinks |-> FALSE,
            nodes |-> <<>>, links |-> <<>>, fresh |-> FALSE]
Graph(ns, ls) == [present |-> TRUE, hasNodes |-> TRUE, hasLinks |-> TRUE,
                  nodes |-> ns, links |-> ls, fresh |-> FALSE]

\* !graphData || !graphData.nodes || !graphData.links
InvalidGraph(g) == ~g.present \/ ~g.hasNodes \/ ~g.hasLinks

----------------------------------------------------------------------------
(* The build effect's body *)

ToLowerCase(s) ==
    CASE s = "Main" -> "main"
      [] s = "Supporting" -> "supporting"
      [] s = "Minor" -> "minor"
      [] OTHER -> s

getNodeColor(role) ==
    CASE ToLowerCase(role) = "main" -> "#ff6b6b"
      [] ToLowerCase(role) = "supporting" -> "#4ecdc4"
      [] ToLowerCase(role) = "minor" -> "#ffd166"
      [] OTHER -> "#6a89cc"

\* graphData.nodes.map(...): jit[i] is (Math.random() - 0.5) * 200 for node i
BuildNodes(raw, dims, jit) ==
    [i \in 1..Len(raw.nodes) |->
        [id |-> raw.nodes[i].id,
         size |-> raw.nodes[i].size,
         role |-> raw.nodes[i].role,
         color |-> getNodeColor(raw.nodes[i].role),
         x |-> Quot(dims.width, 2) + jit[i].x,
         y |-> Quot(dims.height, 2) + jit[i].y,
         vx |-> 0,
         vy |-> 0]]

\* nodeIndices.has(id)
HasIndex(nodes, id) == \E i \in 1..Len(nodes) : nodes[i].id = id

\* nodeIndices.get(id): forEach sets id -> index, so the last node wins;
\* undefined (NoNode here) for an id that was never set
GetIndex(nodes, id) ==
    IF HasIndex(nodes, id)
    THEN (CHOOSE i \in 1..Len(nodes) :
            /\ nodes[i].id = id
            /\ \A j \in 1..Len(nodes) : nodes[j].id = id => j <= i) - 1
    ELSE NoNode

\* the map callback on one raw link whose endpoints are known
ResolveLink(nodes, link) ==
    [source |-> GetIndex(nodes, link.source),
     target |-> GetIndex(nodes, link.target),
     value |-> IF link.value = 0 THEN 2 ELSE link.value,
     type |-> IF link.type = "" THEN "relationship" ELSE link.type]

\* a map step without the nodeIndices.has tests
KeepLinkUnchecked(nodes, link) == TRUE

\* the link is kept: both nodeIndices.has tests pass
KeepLink(nodes, link) == HasIndex(nodes, link.source) /\ HasIndex(nodes, link.target)

\* a map that stops at the first unresolved link
RECURSIVE BuildLinksUntilUnresolved(_, _)
BuildLinksUntilUnresolved(nodes, rawLinks) ==
    IF rawLinks = <<>> THEN <<>>
    ELSE IF KeepLink(nodes, Head(rawLinks))
         THEN <<ResolveLink(nodes, Head(rawLinks))>> \o BuildLinksUntilUnresolved(nodes, Tail(rawLinks))
         ELSE <<>>

RECURSIVE BuildLinks(_, _)
\* graphData.links.map(...).filter(link => link !== null)
BuildLinks(nodes, rawLinks) ==
    IF rawLinks = <<>> THEN <<>>
    ELSE IF KeepLink(nodes, Head(rawLinks))
         THEN <<ResolveLink(nodes, Head(rawLinks))>> \o BuildLinks(nodes, Tail(rawLinks))
         ELSE BuildLinks(nodes, Tail(rawLinks))

\* the value handed to setProcessedData
Build(raw, dims, jit) ==
    LET nodes == BuildNodes(raw, dims, jit)
    IN [nodes |-> nodes, links |-> BuildLinks(nodes, raw.links)]

----------------------------------------------------------------------------
(* simulateForces *)

\* Math.sqrt(dx * dx + dy * dy) || 1
Dist(dx, dy) ==
    LET d == Sqrt(dx * dx + dy * dy)
    IN IF d = 0 THEN Unit ELSE d

\* 1000 / (dist * dist)
RepulsionMagnitude(dist) == Quot(1000 * Unit * Unit * Unit, dist * dist)

\* the velocity that one other node adds to a node
Repulsion(node, otherNode) ==
    LET dx == node.x - otherNode.x
        dy == node.y - otherNode.y
        dist == Dist(dx, dy)
        forceMagnitude == RepulsionMagnitude(dist)
    IN [vx |-> Quot(dx * forceMagnitude, dist), vy |-> Quot(dy * forceMagnitude, dist)]

RECURSIVE RepulsionSum(_, _, _)
\* the inner loop over j (here j runs downward from Len(nodes)), i /= j
RepulsionSum(nodes, i, j) ==
    IF j = 0 THEN [vx |-> 0, vy |-> 0]
    ELSE LET rest == RepulsionSum(nodes, i, j - 1)
         IN IF i = j THEN rest
            ELSE LET r == Repulsion(nodes[i], nodes[j])
                 IN [vx |-> rest.vx + r.vx, vy |-> rest.vy + r.vy]

\* the first loop without the test of dragNode
ForceStepAll(nodes, dims, drag) ==
    [i \in 1..Len(nodes) |->
        LET node == nodes[i]
            rep == RepulsionSum(nodes, i, Len(nodes))
        IN [node EXCEPT
              !.vx = node.vx + Quot((Quot(dims.width, 2) - node.x) * 5, 1000) + rep.vx,
              !.vy = node.vy + Quot((Quot(dims.height, 2) - node.y) * 5, 1000) + rep.vy]]
\* the first loop: centering and repulsion, skipped for the drag node
ForceStep(nodes, dims, drag) ==
    [i \in 1..Len(nodes) |->
        IF drag = i - 1 THEN nodes[i]
        ELSE LET node == nodes[i]
                 rep == RepulsionSum(nodes, i, Len(nodes))
             IN [node EXCEPT
                   !.vx = node.vx + Quot((Quot(dims.width, 2) - node.x) * 5, 1000) + rep.vx,
                   !.vy = node.vy + Quot((Quot(dims.height, 2) - node.y) * 5, 1000) + rep.vy]]

\* the body of the link loop for one link
LinkStep(nodes, link, drag) ==
    IF link.source >= Len(nodes) \/ link.target >= Len(nodes) THEN nodes
    ELSE IF link.source < 0 \/ link.target < 0 THEN nodes
    ELSE LET source == nodes[link.source + 1]
             target == nodes[link.target + 1]
             dx == target.x - source.x
             dy == target.y - source.y
             dist == Dist(dx, dy)
             forceMagnitude == Quot((dist - 100 * Unit) * 3 * Min(link.value, 10), 100)
             fx == Quot(dx * forceMagnitude, dist)
             fy == Quot(dy * forceMagnitude, dist)
             n1 == IF drag /= link.source
                   THEN [nodes EXCEPT ![link.source + 1].vx = @ + fx,
                                      ![link.source + 1].vy = @ + fy]
                   ELSE nodes
         IN IF drag /= link.target
            THEN [n1 EXCEPT ![link.target + 1].vx = @ - fx,
                            ![link.target + 1].vy = @ - fy]
            ELSE n1

RECURSIVE LinkLoop(_, _, _)
\* for (const link of links)
LinkLoop(nodes, links, drag) ==
    IF links = <<>> THEN nodes
    ELSE LinkLoop(LinkStep(nodes, Head(links), drag), Tail(links), drag)

\* no boundary clamp
ClampOff(v, limit) == v

\* Math.max(20, Math.min(limit - 20, v))
Clamp(v, limit) == Max(20 * Unit, Min(limit - 20 * Unit, v))

\* the last loop: integration, damping and the boundary clamp
Integrate(nodes, dims, drag) ==
    [i \in 1..Len(nodes) |->
        IF drag = i - 1 THEN nodes[i]
        ELSE LET node == nodes[i]
             IN [node EXCEPT
                   !.x = Clamp(node.x + node.vx, dims.width),
                   !.y = Clamp(node.y + node.vy, dims.height),
                   !.vx = Quot(node.vx * 9, 10),
                   !.vy = Quot(node.vy * 9, 10)]]

\* the nodes after two steps in one call
simulateForcesTwice(model, dims, drag) ==
    LET once == Integrate(LinkLoop(ForceStep(model.nodes, dims, drag), model.links, drag), dims, drag)
    IN Integrate(LinkLoop(ForceStep(once, dims, drag), model.links, drag), dims, drag)

\* the nodes after one call of simulateForces
simulateForces(model, dims, drag) ==
    Integrate(LinkLoop(ForceStep(model.nodes, dims, drag), model.links, drag), dims, drag)

----------------------------------------------------------------------------
(* Coordinates and hit tests of the handlers *)

MinScale == 100                   \* 0.1
MaxScale == 10000                 \* 10

\* screenToGraph under the transform t
screenToGraph(t, screenX, screenY) ==
    [x |-> Quot((screenX - t.translateX) * ScaleUnit, t.scale),
     y |-> Quot((screenY - t.translateY) * ScaleUnit, t.scale)]

\* world * transform.scale + transform.translate
ToScreenX(t, x) == Quot(x * t.scale, ScaleUnit) + t.translateX
ToScreenY(t, y) == Quot(y * t.scale, ScaleUnit) + t.translateY

\* (node.size / 2) + 4
NodeRadius(node) == Quot(node.size * Unit, 2) + 4 * Unit

\* distance < nodeRadius
NodeHit(node, x, y) == Sqrt((node.x - x) * (node.x - x) + (node.y - y) * (node.y - y)) < NodeRadius(node)

\* the node loops of handleMouseMove and handleMouseDown: the index (from 0)
\* of the first node containing the point, NoNode when the loop ends without one
FirstNodeHit(nodes, x, y) ==
    IF \E i \in 1..Len(nodes) : NodeHit(nodes[i], x, y)
    THEN (CHOOSE i \in 1..Len(nodes) :
            /\ NodeHit(nodes[i], x, y)
            /\ \A j \in 1..(i - 1) : ~NodeHit(nodes[j], x, y)) - 1
    ELSE NoNode

\* the distance from (x, y) to the segment source-target, with param = dot / len_sq
\* taken as (dot / len) / len
SegmentDistance(source, target, x, y) ==
    LET A == x - source.x
        B == y - source.y
        C == target.x - source.x
        D == target.y - source.y
        dot == A * C + B * D
        len_sq == C * C + D * D
        len == Sqrt(len_sq)
        along == IF len = 0 THEN 0 ELSE Quot(dot, len)
        xx == IF len_sq = 0 \/ dot < 0 THEN source.x
              ELSE IF dot > len_sq THEN target.x
              ELSE source.x + Quot(along * C, len)
        yy == IF len_sq = 0 \/ dot < 0 THEN source.y
              ELSE IF dot > len_sq THEN target.y
              ELSE source.y + Quot(along * D, len)
    IN Sqrt((x - xx) * (x - xx) + (y - yy) * (y - yy))

\* 5 / transform.scale
DetectionRadius(t) == Quot(5 * Unit * ScaleUnit, t.scale)

\* the link loop's test for one link: both endpoints exist and the point is in the corridor
LinkHit(nodes, link, t, x, y) ==
    /\ link.source >= 0 /\ link.source < Len(nodes)
    /\ link.target >= 0 /\ link.target < Len(nodes)
    /\ SegmentDistance(nodes[link.source + 1], nodes[link.target + 1], x, y) < DetectionRadius(t)

\* the position (from 1) of the first link hit, 0 when the loop ends without one
FirstLinkHit(model, t, x, y) ==
    IF \E i \in 1..Len(model.links) : LinkHit(model.nodes, model.links[i], t, x, y)
    THEN CHOOSE i \in 1..Len(model.links) :
            /\ LinkHit(model.nodes, model.links[i], t, x, y)
            /\ \A j \in 1..(i - 1) : ~LinkHit(model.nodes, model.links[j], t, x, y)
    ELSE 0

\* hoveredNode = { node, x: screenNodeX, y: screenNodeY }
HoveredNode(node, t) ==
    [on |-> TRUE, node |-> node.id, x |-> ToScreenX(t, node.x), y |-> ToScreenY(t, node.y)]

\* hoveredLink = { source, target, type, x: screenMidX, y: screenMidY }
HoveredLink(nodes, link, t) ==
    LET source == nodes[link.source + 1]
        target == nodes[link.target + 1]
    IN [on |-> TRUE, source |-> source.id, target |-> target.id, type |-> link.type,
        x |-> ToScreenX(t, Quot(source.x + target.x, 2)),
        y |-> ToScreenY(t, Quot(source.y + target.y, 2))]

\* a hover branch that tests nodes and links independently
HoverBoth(model, t, x, y) ==
    LET n == FirstNodeHit(model.nodes, x, y)
        l == FirstLinkHit(model, t, x, y)
    IN [tooltipNode |-> IF n /= NoNode THEN HoveredNode(model.nodes[n + 1], t) ELSE NoTooltipNode,
        tooltipLink |-> IF l /= 0 THEN HoveredLink(model.nodes, model.links[l], t) ELSE NoTooltipLink]

\* the hover branch with the link test before the node test
HoverLinksFirst(model, t, x, y) ==
    LET n == FirstNodeHit(model.nodes, x, y)
        l == FirstLinkHit(model, t, x, y)
    IN IF l /= 0
       THEN [tooltipNode |-> NoTooltipNode, tooltipLink |-> HoveredLink(model.nodes, model.links[l], t)]
       ELSE IF n /= NoNode
       THEN [tooltipNode |-> HoveredNode(model.nodes[n + 1], t), tooltipLink |-> NoTooltipLink]
       ELSE [tooltipNode |-> NoTooltipNode, tooltipLink |-> NoTooltipLink]
\* the tooltips set by the hover branch of handleMouseMove at world point (x, y)
Hover(model, t, x, y) ==
    LET n == FirstNodeHit(model.nodes, x, y)
        l == FirstLinkHit(model, t, x, y)
    IN IF n /= NoNode
       THEN [tooltipNode |-> HoveredNode(model.nodes[n + 1], t), tooltipLink |-> NoTooltipLink]
       ELSE IF l /= 0
       THEN [tooltipNode |-> NoTooltipNode, tooltipLink |-> HoveredLink(model.nodes, model.links[l], t)]
       ELSE [tooltipNode |-> NoTooltipNode, tooltipLink |-> NoTooltipLink]

----------------------------------------------------------------------------
(* Render and effects *)

\* the values an effect's closures capture from the render r
HandlerClosure(r) ==
    [processedData |-> r.processedData, isDragging |-> r.isDragging,
     dragNode |-> r.dragNode, transform |-> r.transform,
     isPanning |-> r.isPanning, lastMousePos |-> r.lastMousePos]

\* simulateForces with what it and the render callback capture
FrameClosure(id, r) ==
    [id |-> id, processedData |-> r.processedData, dimensions |-> r.dimensions,
     dragNode |-> r.dragNode, transform |-> r.transform]

\* the smallest element of a non-empty set of numbers
Least(S) == CHOOSE x \in S : \A y \in S : x <= y

\* requestAnimationFrame's return value: an id that no pending callback holds
\* (every caller stores it in animationRef.current at once, so the id of a
\* callback that has run or was cancelled is held nowhere and is used again)
FreshFrameId(pending) == Least((1..MaxFrameIds) \ {f.id : f \in pending})

\* a cancellation that removes nothing
cancelNothing(pending, id) == pending

\* cancelAnimationFrame(id): the pending callback with that id is dropped
cancelAnimationFrame(pending, id) == {f \in pending : f.id /= id}

\* the dependency arrays, compared with the previous render
BuildDeps(s) == s.graphData.fresh \/ s.dimensions.fresh
HandlerDeps(s) == HandlerClosure(s) /= HandlerClosure(rendered)
SimDeps(s) ==
    \/ s.processedData /= rendered.processedData
    \/ s.dimensions.fresh
    \/ s.dragNode /= rendered.dragNode
    \/ s.transform /= rendered.transform

\* the build effect runs and passes its guard
Rebuilds(s) == BuildDeps(s) /\ ~InvalidGraph(s.graphData)

\* the random offsets one build may draw: a sequence of J, cut to the nodes
Jitters(s, J) == IF Rebuilds(s) THEN {SubSeq(j, 1, Len(s.graphData.nodes)) : j \in J} ELSE {<<>>}

\* one render of the pending state s, then its effects
Render(s, jit) ==
    LET r == [s EXCEPT !.graphData.fresh = FALSE, !.dimensions.fresh = FALSE]
        \* cleanup of the simulation effect
        kept == IF SimDeps(s) /\ simCleanup /\ animationRef /= 0
                THEN cancelAnimationFrame(frames, animationRef)
                ELSE frames
        \* the simulation effect passes its guard
        simRuns == /\ SimDeps(s)
                   /\ r.processedData /= NoModel
                   /\ Len(models[r.processedData].nodes) /= 0
        id == FreshFrameId(kept)
        pending == IF simRuns THEN kept \cup {FrameClosure(id, r)} ELSE kept
        live == {r.processedData} \cup {f.processedData : f \in pending}
        free == (1..MaxModels) \ live
        g == Least(free)
    IN /\ Rebuilds(s) => free /= {}
       /\ simRuns => (1..MaxFrameIds) \ {f.id : f \in kept} /= {}
       /\ rendered' = r
       /\ state' = [r EXCEPT !.processedData = IF Rebuilds(s) THEN g ELSE @]
       /\ models' = [m \in 1..MaxModels |->
                        IF Rebuilds(s) /\ m = g THEN Build(r.graphData, r.dimensions, jit)
                        ELSE IF m \in live THEN models[m]
                        ELSE EmptyModel]
       /\ handlers' = IF HandlerDeps(s) THEN HandlerClosure(r) ELSE handlers
       /\ frames' = pending
       /\ animationRef' = IF simRuns THEN id ELSE animationRef
       /\ simCleanup' = IF SimDeps(s) THEN simRuns ELSE simCleanup

\* a render caused by a discrete event: it happens before the event returns
RenderNow(s, J) == \E jit \in Jitters(s, J) : Render(s, jit) /\ UNCHANGED <<ticks, pointer, appVars>>

\* a render scheduled by an earlier update
Commit(jit) ==
    /\ state /= rendered
    /\ Render(state, jit)
    /\ event' = "commit"
    /\ UNCHANGED <<ticks, zooms, pointer, appVars>>

----------------------------------------------------------------------------
(* The state after mounting: first render, then the effects on mount *)

InitialState(g) ==
    [graphData |-> g, dimensions |-> InitialDimensions,
     tooltipNode |-> NoTooltipNode, tooltipLink |-> NoTooltipLink,
     isDragging |-> FALSE, dragNode |-> NoNode, processedData |-> NoModel,
     transform |-> IdentityTransform, isPanning |-> FALSE,
     lastMousePos |-> [x |-> 0, y |-> 0]]

\* updateDimensions: the container's rectangle d, its height at least 500
Measured(d) == [width |-> d.width, height |-> Max(500 * Unit, d.height), fresh |-> TRUE]

\* null in a ref to a function returned by subscribe
NoUnsubscribe == [stream |-> 0, callback |-> 0]

\* the Home page after its first render: the initial values of its state
\* hooks and refs (0 is null for a book and a stream; the empty book id is 0);
\* submissions counts the submissions that passed the empty-id check
InitialPage ==
    [bookId |-> 1787, loading |-> FALSE, error |-> "null", bookData |-> 0,
     bookFetchStatus |-> "null", analysisStatus |-> "null", analysisData |-> 0,
     bookFetchStreamRef |-> 0, bookFetchUnsubscribeRef |-> NoUnsubscribe,
     analysisStreamRef |-> 0, analysisUnsubscribeRef |-> NoUnsubscribe,
     submissions |-> 0]

\* the page mounted, no stream made yet, nothing stored in the history
InitApp ==
    /\ history = <<>>
    /\ streams = <<>>
    /\ sources = <<>>
    /\ invoked = <<>>
    /\ page = InitialPage
    /\ tasks = {}

\* the component mounted with graph g in container d
InitGraph(G, D, J) ==
    \E g \in G, d \in D :
    \E jit \in (IF InvalidGraph(g) THEN {<<>>} ELSE {SubSeq(j, 1, Len(g.nodes)) : j \in J}) :
        /\ rendered = InitialState(g)
        /\ state = [InitialState(g) EXCEPT
                      !.processedData = IF InvalidGraph(g) THEN NoModel ELSE 1,
                      !.dimensions = Measured(d)]
        /\ models = [m \in 1..MaxModels |->
                        IF m = 1 /\ ~InvalidGraph(g) THEN Build(g, InitialDimensions, jit)
                        ELSE EmptyModel]
        /\ handlers = HandlerClosure(InitialState(g))
        /\ frames = {}
        /\ animationRef = 0
        /\ simCleanup = FALSE
        /\ ticks = 0
        /\ zooms = 0
        /\ event = "mount"
        /\ pointer = [x |-> 0, y |-> 0]

InitWith(G, D, J) == InitGraph(G, D, J) /\ InitApp

----------------------------------------------------------------------------
(* Event handlers.  p is the pointer's position relative to the canvas. *)

\* the drag branch of handleMouseMove: the drag node follows the pointer
DragEveryNode(model, drag, x, y) ==
    [model EXCEPT !.nodes = [i \in 1..Len(model.nodes) |->
                                [model.nodes[i] EXCEPT !.x = x, !.y = y, !.vx = 0, !.vy = 0]]]

\* the drag branch of handleMouseMove, as an update of the model
DragTo(model, drag, x, y) ==
    IF drag >= 0 /\ drag < Len(model.nodes)
    THEN [model EXCEPT !.nodes[drag + 1] = [@ EXCEPT !.x = x, !.y = y, !.vx = 0, !.vy = 0]]
    ELSE model

\* the pan branch of handleMouseMove, as an update of the pending state
PanBy(s, p, last) ==
    [s EXCEPT !.transform.translateX = @ + (p.x - last.x),
              !.transform.translateY = @ + (p.y - last.y),
              !.lastMousePos = p]

\* handleMouseMove with the pointer at p; a specification that follows the
\* pointer adds pointer' = p, any other leaves it unchanged
handleMouseMove(p) ==
    LET h == handlers
        w == screenToGraph(h.transform, p.x, p.y)
    IN /\ IF h.isPanning
          THEN /\ state' = PanBy(state, p, h.lastMousePos)
               /\ UNCHANGED models
          ELSE IF h.isDragging /\ h.dragNode /= NoNode /\ h.processedData /= NoModel
          THEN /\ models' = [models EXCEPT ![h.processedData] = DragTo(@, h.dragNode, w.x, w.y)]
               /\ UNCHANGED state
          ELSE IF h.processedData /= NoModel
          THEN /\ state' = [state EXCEPT
                               !.tooltipNode = Hover(models[h.processedData], h.transform, w.x, w.y).tooltipNode,
                               !.tooltipLink = Hover(models[h.processedData], h.transform, w.x, w.y).tooltipLink]
               /\ UNCHANGED models
          ELSE UNCHANGED <<state, models>>
       /\ event' = "mousemove"
       /\ UNCHANGED <<rendered, handlers, frames, animationRef, simCleanup, ticks, zooms>>

\* the pending state after handleMouseDown
MouseDownUpdate(s, p, buttons, altKey) ==
    LET h == handlers
        w == screenToGraph(h.transform, p.x, p.y)
        hit == FirstNodeHit(models[h.processedData].nodes, w.x, w.y)
    IN IF h.processedData = NoModel THEN s
       ELSE IF buttons = 4 \/ (buttons = 1 /\ altKey)
       THEN [s EXCEPT !.isPanning = TRUE, !.lastMousePos = p]
       ELSE IF hit /= NoNode
       THEN [s EXCEPT !.isDragging = TRUE, !.dragNode = hit]
       ELSE s

handleMouseDown(p, buttons, altKey, J) ==
    RenderNow(MouseDownUpdate(state, p, buttons, altKey), J) /\ event' = "mousedown" /\ UNCHANGED zooms

\* a release that leaves isPanning set
MouseUpKeepsPanning(s) == [s EXCEPT !.isDragging = FALSE, !.dragNode = NoNode]

\* a release that leaves dragNode set
MouseUpKeepsDragNode(s) == [s EXCEPT !.isDragging = FALSE, !.isPanning = FALSE]

\* the pending state after handleMouseUp
MouseUpUpdate(s) == [s EXCEPT !.isDragging = FALSE, !.dragNode = NoNode, !.isPanning = FALSE]

handleMouseUp(J) == RenderNow(MouseUpUpdate(state), J) /\ event' = "mouseup" /\ UNCHANGED zooms

\* the multiplier of one wheel step: e.deltaY < 0 ? 1.1 : 0.9, in tenths
WheelDelta(zoomIn) == IF zoomIn THEN 11 ELSE 9

\* a wheel step that scales and leaves the translate as it was
WheelTransformScaleOnly(t, p, zoomIn) ==
    [t EXCEPT !.scale = Quot(@ * WheelDelta(zoomIn), 10)]

\* the transform handleWheel sets, from the transform t it captured
WheelTransform(t, p, zoomIn) ==
    LET delta == WheelDelta(zoomIn)
        newScale == Quot(t.scale * delta, 10)
    IN IF newScale < MinScale \/ newScale > MaxScale THEN t
       ELSE [scale |-> newScale,
             translateX |-> t.translateX + Quot((10 - delta) * (p.x - t.translateX), 10),
             translateY |-> t.translateY + Quot((10 - delta) * (p.y - t.translateY), 10)]

\* the wheel step passes the range test
WheelAccepted(t, zoomIn) ==
    LET newScale == Quot(t.scale * WheelDelta(zoomIn), 10)
    IN ~(newScale < MinScale \/ newScale > MaxScale)

\* handleWheel with the pointer at p; the specification says what becomes of
\* zooms and pointer
handleWheel(p, zoomIn) ==
    /\ state' = IF WheelAccepted(handlers.transform, zoomIn)
                THEN [state EXCEPT !.transform = WheelTransform(handlers.transform, p, zoomIn)]
                ELSE state
    /\ event' = IF zoomIn THEN "wheelin" ELSE "wheelout"
    /\ UNCHANGED <<rendered, models, handlers, frames, animationRef, simCleanup, ticks>>

\* the pending state after handleKeyDown
KeyDownUpdate(s, key) ==
    LET s1 == IF key \in {"r", "R"} THEN [s EXCEPT !.transform = IdentityTransform] ELSE s
    IN IF key = "Alt" /\ handlers.isPanning = FALSE
       THEN [s1 EXCEPT !.isPanning = TRUE,
                       !.lastMousePos = [x |-> Quot(rendered.dimensions.width, 2),
                                         y |-> Quot(rendered.dimensions.height, 2)]]
       ELSE s1

handleKeyDown(key, J) == RenderNow(KeyDownUpdate(state, key), J) /\ event' = "keydown" /\ UNCHANGED zooms

\* the pending state after handleKeyUp
KeyUpUpdate(s, key) == IF key = "Alt" THEN [s EXCEPT !.isPanning = FALSE] ELSE s

handleKeyUp(key, J) == RenderNow(KeyUpUpdate(state, key), J) /\ event' = "keyup" /\ UNCHANGED zooms

\* a zoom-in without Math.min
ZoomInUnclamped(s) == [s EXCEPT !.transform.scale = Quot(@ * 12, 10)]

\* a zoom-out without Math.max
ZoomOutUnclamped(s) == [s EXCEPT !.transform.scale = Quot(@ * 10, 12)]

\* the zoom controls: prev => ({ ...prev, scale: ... })
ZoomInUpdate(s) == [s EXCEPT !.transform.scale = Min(Quot(@ * 12, 10), MaxScale)]
ZoomOutUpdate(s) == [s EXCEPT !.transform.scale = Max(Quot(@ * 10, 12), MinScale)]

\* a reset that keeps the translate
ResetScaleOnly(s) == [s EXCEPT !.transform.scale = ScaleUnit]

\* the reset control: setTransform({ scale: 1, translateX: 0, translateY: 0 })
ResetUpdate(s) == [s EXCEPT !.transform = IdentityTransform]

ResetClick(J) == RenderNow(ResetUpdate(state), J) /\ event' = "reset" /\ UNCHANGED zooms

\* the window's resize listener: updateDimensions with the container's rectangle d
Resize(d) ==
    /\ state' = [state EXCEPT !.dimensions = Measured(d)]
    /\ event' = "resize"
    /\ UNCHANGED <<rendered, models, handlers, frames, animationRef, simCleanup, ticks, zooms, pointer, appVars>>

\* a new graphData prop that also resets the view
SetGraphDataResetsView(g) ==
    /\ state' = [state EXCEPT !.graphData = [g EXCEPT !.fresh = TRUE],
                              !.transform = IdentityTransform]
    /\ event' = "graphData"
    /\ UNCHANGED <<rendered, models, handlers, frames, animationRef, simCleanup, ticks, zooms, pointer, appVars>>

\* the parent passes a new graphData prop
SetGraphData(g) ==
    /\ state' = [state EXCEPT !.graphData = [g EXCEPT !.fresh = TRUE]]
    /\ event' = "graphData"
    /\ UNCHANGED <<rendered, models, handlers, frames, animationRef, simCleanup, ticks, zooms, pointer, appVars>>

\* the component is unmounted: the effects' cleanups run, which cancel the
\* callback named by animationRef.current and remove the listeners
Unmount ==
    /\ event /= "unmount"
    /\ event' = "unmount"
    /\ frames' = IF simCleanup /\ animationRef /= 0
                 THEN cancelAnimationFrame(frames, animationRef)
                 ELSE frames
    /\ simCleanup' = FALSE
    /\ UNCHANGED <<state, rendered, models, handlers, animationRef, ticks, zooms, pointer, appVars>>

----------------------------------------------------------------------------
(* The frame loop *)

\* a callback that steps and renders but requests no successor
FrameStepOnce(f) ==
    /\ f \in frames
    /\ event' = "frame"
    /\ models' = [models EXCEPT ![f.processedData].nodes =
                     simulateForces(models[f.processedData], f.dimensions, f.dragNode)]
    /\ frames' = frames \ {f}
    /\ UNCHANGED <<state, rendered, handlers, animationRef, simCleanup, zooms, pointer, appVars>>

\* the pending callback f runs: simulateForces, render, requestAnimationFrame
FrameStep(f) ==
    /\ f \in frames
    /\ event' = "frame"
    /\ models' = [models EXCEPT ![f.processedData].nodes =
                     simulateForces(models[f.processedData], f.dimensions, f.dragNode)]
    /\ LET id == FreshFrameId(frames \ {f})
       IN /\ frames' = (frames \ {f}) \cup {[f EXCEPT !.id = id]}
          /\ animationRef' = id
    /\ UNCHANGED <<state, rendered, handlers, simCleanup, zooms, pointer, appVars>>

\* the host runs the pending callback f, one of at most MaxTicks runs
Frame(f) ==
    /\ ticks < MaxTicks
    /\ ticks' = ticks + 1
    /\ FrameStep(f)

----------------------------------------------------------------------------
(* Inputs *)

MaxNodes == 2
MaxLinks == 2

Pt(x, y) == [x |-> x * Unit, y |-> y * Unit]

NodeA == [id |-> "A", size |-> 10, role |-> "main"]
NodeB == [id |-> "B", size |-> 10, role |-> "Minor"]
LinkAB == [source |-> "A", target |-> "B", value |-> 5, type |-> "Friend"]

GraphAB == Graph(<<NodeA, NodeB>>, <<LinkAB>>)
GraphA == Graph(<<NodeA>>, <<>>)

\* all sequences over S of length at most n
SeqsUpTo(S, n) == UNION {[1..k -> S] : k \in 0..n}

\* raw links between known and unknown ids; those leaving "B" lack value and type
RawLinks ==
    {[source |-> a, target |-> b,
      value |-> IF a = "B" THEN 0 ELSE 5,
      type |-> IF a = "B" THEN "" ELSE "Friend"] : a \in {"A", "B", "Z"}, b \in {"A", "B", "Z"}}

\* every graph of at most MaxNodes nodes and MaxLinks links over these
RawGraphs == {Graph(ns, ls) : ns \in SeqsUpTo({NodeA, NodeB}, MaxNodes), ls \in SeqsUpTo(RawLinks, MaxLinks)}

Containers == {[width |-> 300 * Unit, height |-> 500 * Unit]}
\* the offsets of a build, one per node: apart, swapped, or both in one place
Apart == [i \in 1..(MaxNodes + 1) |-> IF i = 1 THEN Pt(-40, 0) ELSE Pt(40, 0)]
Swapped == [i \in 1..(MaxNodes + 1) |-> IF i = 1 THEN Pt(40, 0) ELSE Pt(-40, 0)]
Together == [i \in 1..(MaxNodes + 1) |-> Pt(-40, 0)]
JitterSet == {Apart, Swapped}

----------------------------------------------------------------------------
(* The model in use *)

\* the processedData of the pending state, an empty model when it is null
Current == IF state.processedData = NoModel THEN EmptyModel ELSE models[state.processedData]

Ids(nodes) == [i \in 1..Len(nodes) |-> nodes[i].id]

----------------------------------------------------------------------------
(* SpecBuild: the build effect on every raw graph, the container measured *)
(* on mount and on resize                                                 *)

InitBuild == InitWith(RawGraphs, Containers, {Together})

NextBuild ==
    \/ \E jit \in Jitters(state, {Together}) : Commit(jit)
    \/ \E d \in Containers : Resize(d)

SpecBuild == InitBuild /\ [][NextBuild]_vars

\* C1: every link of every built model has a source and a target that are
\* indices of that model's node list
C1_LinksResolved ==
    \A m \in 1..MaxModels : \A i \in 1..Len(models[m].links) :
        /\ 0 <= models[m].links[i].source /\ models[m].links[i].source < Len(models[m].nodes)
        /\ 0 <= models[m].links[i].target /\ models[m].links[i].target < Len(models[m].nodes)

\* a model was built from a graph one of whose links is unresolved, and kept a link
C1_Witness ==
    /\ event = "commit"
    /\ state.processedData /= NoModel
    /\ Len(Current.links) >= 1
    /\ \E k \in 1..Len(rendered.graphData.links) :
          ~HasIndex(Current.nodes, rendered.graphData.links[k].target)

\* the positions, in order, of the raw links whose endpoints are both ids of raw nodes
Resolvable(raw) ==
    {k \in 1..Len(raw.links) :
        /\ \E i \in 1..Len(raw.nodes) : raw.nodes[i].id = raw.links[k].source
        /\ \E i \in 1..Len(raw.nodes) : raw.nodes[i].id = raw.links[k].target}

\* the i-th resolvable raw link
NthResolvable(raw, i) ==
    CHOOSE k \in Resolvable(raw) : Cardinality({j \in Resolvable(raw) : j <= k}) = i

\* C2: the built links are exactly the raw links with both endpoints known, in
\* their order, each resolved to nodes carrying its own endpoint ids; the built
\* nodes are the raw nodes, in order, whatever the links
C2_UnresolvedDropped ==
    state.processedData /= NoModel =>
        LET raw == rendered.graphData
            m == Current
        IN /\ Ids(m.nodes) = Ids(raw.nodes)
           /\ Len(m.links) = Cardinality(Resolvable(raw))
           /\ \A i \in 1..Len(m.links) :
                 /\ m.links[i].source \in 0..(Len(m.nodes) - 1)
                 /\ m.links[i].target \in 0..(Len(m.nodes) - 1)
                 /\ m.nodes[m.links[i].source + 1].id = raw.links[NthResolvable(raw, i)].source
                 /\ m.nodes[m.links[i].target + 1].id = raw.links[NthResolvable(raw, i)].target

\* a built model whose raw graph has an unresolved link followed by a resolved one
C2_Witness ==
    /\ event = "commit"
    /\ state.processedData /= NoModel
    /\ Len(Current.links) >= 1
    /\ \E k \in 1..Len(rendered.graphData.links) :
          /\ k \notin Resolvable(rendered.graphData)
          /\ (k + 1) \in Resolvable(rendered.graphData)

----------------------------------------------------------------------------
(* SpecZoom: the scale over its whole range, by wheel steps anchored at    *)
(* the canvas origin, the zoom controls and the reset control              *)

\* a wheel step that is not counted against MaxZooms
FreeWheel(p, zoomIn) == handleWheel(p, zoomIn) /\ UNCHANGED <<zooms, pointer, appVars>>
ZoomInClick == RenderNow(ZoomInUpdate(state), {Together}) /\ event' = "zoomin" /\ UNCHANGED zooms
ZoomOutClick == RenderNow(ZoomOutUpdate(state), {Together}) /\ event' = "zoomout" /\ UNCHANGED zooms

InitZoom == InitWith({GraphA}, Containers, {Together})

NextZoom ==
    \/ \E jit \in Jitters(state, {Together}) : Commit(jit)
    \/ \E zoomIn \in BOOLEAN : FreeWheel([x |-> 0, y |-> 0], zoomIn)
    \/ ZoomInClick
    \/ ZoomOutClick
    \/ ResetClick({Together})

SpecZoom == InitZoom /\ [][NextZoom]_vars

\* C3: the scale, pending or rendered, is within [0.1, 10]
C3_ScaleInRange ==
    /\ MinScale <= state.transform.scale /\ state.transform.scale <= MaxScale
    /\ MinScale <= rendered.transform.scale /\ rendered.transform.scale <= MaxScale

\* the scale has been driven to the upper limit
C3_Witness == state.transform.scale = MaxScale /\ rendered.transform.scale = MaxScale

\* the zoom request of the step would take the scale out of [0.1, 10]: a
\* wheel step from the transform its handler holds, a button from the pending one
WheelOutOfRange ==
    \/ event' = "wheelin" /\ Quot(handlers.transform.scale * 11, 10) > MaxScale
    \/ event' = "wheelout" /\ Quot(handlers.transform.scale * 9, 10) < MinScale
ZoomInOutOfRange == event' = "zoomin" /\ Quot(state.transform.scale * 12, 10) > MaxScale
ZoomOutOutOfRange == event' = "zoomout" /\ Quot(state.transform.scale * 10, 12) < MinScale

\* C12 as claimed: a zoom request, by wheel or by button, whose scale would
\* leave [0.1, 10] leaves the transform as it was
C12_OutOfRangeNoOp ==
    [][(WheelOutOfRange \/ ZoomInOutOfRange \/ ZoomOutOutOfRange)
          => state'.transform = state.transform]_vars

\* C12: such a wheel step leaves the transform as it was; such a click on a
\* zoom button sets the scale to the limit it would pass and leaves the translate
C12_RejectOrClamp ==
    [][/\ WheelOutOfRange => state'.transform = state.transform
       /\ ZoomInOutOfRange => state'.transform = [state.transform EXCEPT !.scale = MaxScale]
       /\ ZoomOutOutOfRange => state'.transform = [state.transform EXCEPT !.scale = MinScale]]_vars

\* a wheel zoom-in has just been rejected at a scale below the upper limit
C12_Witness ==
    /\ event = "wheelin"
    /\ Quot(handlers.transform.scale * 11, 10) > MaxScale
    /\ state.transform.scale < MaxScale
    /\ state.transform.scale = handlers.transform.scale

----------------------------------------------------------------------------
(* SpecCamera: pan, zoom and reset over one node, with at most MaxZooms    *)
(* zoom requests and the translate kept within MaxPan pixels              *)

CameraPoints == {Pt(30, 30), Pt(70, 30)}
WheelPoints == {Pt(70, 30)}

\* the pending translate stays within MaxPan pixels of the origin
PanWindow(s) ==
    /\ Abs(s.transform.translateX) <= MaxPan * Unit
    /\ Abs(s.transform.translateY) <= MaxPan * Unit

\* a zoom request counted against MaxZooms
Counted == zooms < MaxZooms /\ zooms' = zooms + 1

Wheel(p, zoomIn) == handleWheel(p, zoomIn) /\ Counted /\ PanWindow(state') /\ UNCHANGED <<pointer, appVars>>
MouseMove(p) == handleMouseMove(p) /\ PanWindow(state') /\ UNCHANGED <<pointer, appVars>>

InitCamera == InitWith({GraphA}, Containers, {Together})

NextCamera ==
    \/ \E jit \in Jitters(state, {Together}) : Commit(jit)
    \/ \E p \in WheelPoints, zoomIn \in BOOLEAN : Wheel(p, zoomIn)
    \/ ResetClick({Together})
    \/ \E k \in {"r", "R", "Alt", "x"} : handleKeyDown(k, {Together})
    \/ \E k \in {"Alt", "x"} : handleKeyUp(k, {Together})
    \/ \E p \in CameraPoints, b \in {1, 4}, a \in BOOLEAN : handleMouseDown(p, b, a, {Together})
    \/ \E p \in CameraPoints : MouseMove(p)
    \/ handleMouseUp({Together})

SpecCamera == InitCamera /\ [][NextCamera]_vars

\* C8: a reset, by the button or by the r or R key, sets the transform to
\* scale 1 and translate (0, 0), a second reset changes nothing, and no node
\* of the model in use is touched
C8_ResetIdentity ==
    [][(\/ event' = "reset"
        \/ /\ event' = "keydown"
           /\ \/ handleKeyDown("r", {Together})
              \/ handleKeyDown("R", {Together}))
       => /\ state'.transform = [scale |-> ScaleUnit, translateX |-> 0, translateY |-> 0]
          /\ rendered'.transform = state'.transform
          /\ ResetUpdate(state') = state'
          /\ KeyDownUpdate(state', "r").transform = state'.transform
          /\ state.processedData /= NoModel =>
                models'[state.processedData] = models[state.processedData]]_vars

\* the reset button has just been clicked after zoom requests
C8_Witness ==
    /\ event = "reset"
    /\ zooms > 0
    /\ state.transform = IdentityTransform
    /\ rendered.transform = IdentityTransform
    /\ Len(Current.nodes) > 0

\* a transform differs from another by at most the rounding of two steps
NearTransform(a, b) ==
    /\ Abs(a.scale - b.scale) <= 2
    /\ Abs(a.translateX - b.translateX) <= Tol
    /\ Abs(a.translateY - b.translateY) <= Tol

\* C9 as claimed: from the transform the handlers hold, a wheel zoom-in at p
\* followed by a wheel zoom-out at p, both accepted, gives the transform back
C9_WheelRoundTrip ==
    \A p \in CameraPoints :
        LET t == handlers.transform
            zoomedIn == WheelTransform(t, p, TRUE)
            zoomedOut == WheelTransform(zoomedIn, p, FALSE)
        IN (WheelAccepted(t, TRUE) /\ WheelAccepted(zoomedIn, FALSE))
               => NearTransform(zoomedOut, t)

\* C20: an accepted wheel step with multiplier delta at the focal point f
\* takes the transform on screen to scale' = scale * delta and
\* translate' = translate + (1 - delta) * (f - translate), and the world
\* point under f is the same before and after
C20_ZoomAboutFocus ==
    [][(event' \in {"wheelin", "wheelout"} /\ WheelAccepted(rendered.transform, event' = "wheelin")) =>
          \E f \in WheelPoints :
              LET t == rendered.transform
                  u == state'.transform
                  delta == WheelDelta(event' = "wheelin")
              IN /\ Abs(10 * u.scale - delta * t.scale) < 10
                 /\ Abs(10 * (u.translateX - t.translateX) - (10 - delta) * (f.x - t.translateX)) < 10
                 /\ Abs(10 * (u.translateY - t.translateY) - (10 - delta) * (f.y - t.translateY)) < 10
                 /\ Abs(screenToGraph(u, f.x, f.y).x - screenToGraph(t, f.x, f.y).x) <= Tol
                 /\ Abs(screenToGraph(u, f.x, f.y).y - screenToGraph(t, f.x, f.y).y) <= Tol]_vars

\* a second accepted wheel step has just zoomed about a focal point that is
\* not the origin of the panned view
C20_Witness ==
    /\ event \in {"wheelin", "wheelout"}
    /\ zooms = 2
    /\ rendered.transform.scale /= ScaleUnit
    /\ state.transform.scale /= rendered.transform.scale
    /\ state.transform.translateX /= rendered.transform.translateX
    /\ state.transform.translateY /= rendered.transform.translateY
    /\ \E f \in WheelPoints :
          Abs(screenToGraph(state.transform, f.x, f.y).x
                - screenToGraph(rendered.transform, f.x, f.y).x) <= Tol

----------------------------------------------------------------------------
(* SpecInput: the graphData prop and the container change while the frame *)
(* loop runs and nodes are pressed and released                           *)

InputPoints == {Pt(190, 250), Pt(110, 250)}

InitInput == InitWith({GraphAB}, Containers, JitterSet)

NextInput ==
    \/ \E jit \in Jitters(state, JitterSet) : Commit(jit)
    \/ \E f \in frames : Frame(f)
    \/ \E p \in InputPoints : handleMouseDown(p, 1, FALSE, JitterSet)
    \/ handleMouseUp(JitterSet)
    \/ \E g \in {GraphA, GraphAB} : SetGraphData(g)
    \/ \E d \in Containers : Resize(d)

SpecInput == InitInput /\ [][NextInput]_vars

\* the drag node is set exactly when a drag is in progress
DragNodeIffDragging ==
    /\ state.dragNode /= NoNode <=> state.isDragging
    /\ rendered.dragNode /= NoNode <=> rendered.isDragging

\* C6 as claimed: the drag node is set exactly when a drag is in progress and
\* it is the index of a node of the model in use
C6_DragNodeExists ==
    /\ DragNodeIffDragging
    /\ state.dragNode /= NoNode => state.dragNode < Len(Current.nodes)

\* C6: the drag node is set exactly when a drag is in progress, and the press
\* that sets it sets it to the index of a node of the model the press handler
\* tested
C6_DragNodeSetByPress ==
    /\ []DragNodeIffDragging
    /\ [][state'.dragNode /= state.dragNode /\ state'.dragNode /= NoNode
            => /\ event' = "mousedown"
               /\ handlers.processedData /= NoModel
               /\ state'.dragNode >= 0
               /\ state'.dragNode < Len(models[handlers.processedData].nodes)]_vars

\* a press has just picked up the second node
C6_Witness ==
    /\ event = "mousedown"
    /\ state.isDragging
    /\ state.dragNode = 1
    /\ Len(Current.nodes) = 2

\* C10 as claimed: neither a resize nor the render that follows it replaces
\* the model or changes a node of it
C10_ResizeKeepsModel ==
    [][(/\ rendered.dimensions.width /= InitialDimensions.width
        /\ ~state.graphData.fresh
        /\ \/ event' = "resize"
           \/ event = "resize" /\ event' = "commit")
       => /\ state'.processedData = state.processedData
          /\ state.processedData /= NoModel =>
                models'[state.processedData] = models[state.processedData]]_vars

----------------------------------------------------------------------------
(* SpecReplace: the graphData prop is replaced, by valid graphs and by     *)
(* missing or incomplete ones, the container is resized and the component *)
(* is unmounted, while the frame loop runs                                *)

\* an object without a nodes list
NodesMissing == [Graph(<<>>, <<>>) EXCEPT !.hasNodes = FALSE]

\* the component has not been unmounted
Mounted == event /= "unmount"

InitReplace == InitWith({GraphA, NoGraph}, Containers, {Apart})

NextReplace ==
    \/ Mounted /\ \E jit \in Jitters(state, {Apart}) : Commit(jit)
    \/ \E f \in frames : Frame(f)
    \/ Mounted /\ \E g \in {GraphA, GraphAB, NoGraph, NodesMissing} : SetGraphData(g)
    \/ Mounted /\ \E d \in Containers : Resize(d)
    \/ Unmount

SpecReplace == InitReplace /\ [][NextReplace]_vars

\* every pending frame callback is the one the simulation effect of the last
\* render, or its own loop, scheduled
PendingFramesCurrent ==
    \A f \in frames :
        /\ Mounted
        /\ rendered.processedData /= NoModel
        /\ f = FrameClosure(animationRef, rendered)

C13_InvalidInputEmpty ==
    (InvalidGraph(rendered.graphData) /\ state = rendered) =>
        /\ Current = EmptyModel
        /\ frames = {}

----------------------------------------------------------------------------
(* SpecController: presses with any button, releases and the Alt key over *)
(* two nodes that lie apart or in one place; the pointer is moved while   *)
(* the handlers pan                                                       *)

\* the handlers are in the Idle state and have a model
IdleHandlers == ~handlers.isPanning /\ ~handlers.isDragging /\ handlers.processedData /= NoModel

ControlPoints == {Pt(110, 250), Pt(190, 250), Pt(150, 230)}

ControlJitter == {Apart, Together}

\* MouseEvent.buttons: primary, secondary, middle
Buttons == {1, 2, 4}

\* the pointer moves to p while the handlers pan
PanMove(p) == handlers.isPanning /\ MouseMove(p)

InitController == InitWith({GraphAB}, Containers, ControlJitter)

NextController ==
    \/ \E jit \in Jitters(state, ControlJitter) : Commit(jit)
    \/ \E p \in ControlPoints, b \in Buttons, a \in BOOLEAN :
          handleMouseDown(p, b, a, ControlJitter)
    \/ \E p \in ControlPoints : PanMove(p)
    \/ handleMouseUp(ControlJitter)
    \/ \E k \in {"Alt", "x"} : handleKeyDown(k, ControlJitter)
    \/ \E k \in {"Alt", "x"} : handleKeyUp(k, ControlJitter)

SpecController == InitController /\ [][NextController]_vars

\* C14 as claimed: the panning flag and the dragging flag are never both set
C14_OneState ==
    /\ ~(state.isPanning /\ state.isDragging)
    /\ ~(rendered.isPanning /\ rendered.isDragging)

\* the step is a middle-button press or a primary-button press with Alt held
PanPress ==
    \E p \in ControlPoints :
        \/ \E a \in BOOLEAN : handleMouseDown(p, 4, a, ControlJitter)
        \/ handleMouseDown(p, 1, TRUE, ControlJitter)

\* the step sets the panning flag
EntersPanning == ~state.isPanning /\ state'.isPanning

\* C15 as claimed: the panning flag is set only by a middle-button press or a
\* primary-button press with Alt held
C15_PanningByPressOnly == [][EntersPanning => PanPress]_vars

\* the handlers hold a model and neither flag
IdleWithModel == IdleHandlers /\ ~state.isPanning /\ ~state.isDragging

\* the nodes of the handlers' model whose hit radius contains the pointer at p
NodesAt(p) ==
    LET w == screenToGraph(handlers.transform, p.x, p.y)
        nodes == models[handlers.processedData].nodes
    IN {i \in 1..Len(nodes) : NodeHit(nodes[i], w.x, w.y)}

\* C16 as claimed: from Idle, a primary-button press without Alt on a node
\* pins the first node in array order that contains the point, and a press
\* with the secondary button, or one that hits no node, leaves the controller
\* Idle with no node pinned
C16_DragByPrimaryPress ==
    [][\A p \in ControlPoints :
          /\ (IdleWithModel /\ NodesAt(p) /= {} /\ handleMouseDown(p, 1, FALSE, ControlJitter))
                => /\ state'.isDragging
                   /\ state'.dragNode = Least(NodesAt(p)) - 1
          /\ (IdleWithModel /\ \E a \in BOOLEAN : handleMouseDown(p, 2, a, ControlJitter))
                => /\ ~state'.isDragging /\ ~state'.isPanning
                   /\ state'.dragNode = NoNode
          /\ (IdleWithModel /\ NodesAt(p) = {} /\ handleMouseDown(p, 1, FALSE, ControlJitter))
                => /\ ~state'.isDragging /\ ~state'.isPanning
                   /\ state'.dragNode = NoNode]_vars

\* C17: a release clears the panning flag, the dragging flag and the drag
\* node, and changes neither the transform nor a node of the model in use
C17_ReleaseToIdle ==
    [][event' = "mouseup" =>
          /\ ~state'.isPanning /\ ~state'.isDragging /\ state'.dragNode = NoNode
          /\ ~rendered'.isPanning /\ ~rendered'.isDragging /\ rendered'.dragNode = NoNode
          /\ state'.transform = state.transform
          /\ state.processedData /= NoModel =>
                models'[state.processedData] = models[state.processedData]]_vars

\* a button has just been released after a pan that moved the view
C17_Witness ==
    /\ event = "mouseup"
    /\ ~state.isPanning /\ ~state.isDragging
    /\ state.transform.translateX /= 0
    /\ state.lastMousePos \in ControlPoints
    /\ Len(Current.nodes) = 2

----------------------------------------------------------------------------
(* SpecDrag: a pointer that is followed from move to move presses the     *)
(* primary button, drags and releases over two linked nodes, under at     *)
(* most MaxZooms zoom-in wheel steps at the pointer and MaxDragTicks      *)
(* frames                                                                 *)

MaxDragTicks == 1

DragPoints == {Pt(110, 250), Pt(150, 230)}

\* the pointer moves to p
Move(p) == handleMouseMove(p) /\ pointer' = p /\ UNCHANGED appVars

\* the primary button goes down at the pointer, without Alt
Press == handleMouseDown(pointer, 1, FALSE, {Apart})

\* the wheel turns at the pointer
WheelAtPointer(zoomIn) == Wheel(pointer, zoomIn)

InitDrag == InitWith({GraphAB}, Containers, {Apart})

NextDrag ==
    \/ \E jit \in Jitters(state, {Apart}) : Commit(jit)
    \/ ticks < MaxDragTicks /\ \E f \in frames : Frame(f)
    \/ \E p \in DragPoints : Move(p)
    \/ Press
    \/ handleMouseUp({Apart})
    \/ WheelAtPointer(TRUE)

SpecDrag == InitDrag /\ [][NextDrag]_vars

\* the handlers are in the DraggingNode state
DraggingHandlers ==
    /\ handlers.isDragging /\ ~handlers.isPanning
    /\ handlers.dragNode /= NoNode /\ handlers.processedData /= NoModel

\* C18: a pointer move in the DraggingNode state puts the pinned node at
\* (screen - translate) / scale under the transform on screen, zeroes its
\* velocity, and changes no other node, no link, and nothing of the
\* transform or the hover state
C18_DragMove ==
    [][(event' = "mousemove" /\ DraggingHandlers) =>
          LET t == rendered.transform
              m == handlers.processedData
              d == handlers.dragNode + 1
          IN /\ models'[m].nodes[d].x = Quot((pointer'.x - t.translateX) * ScaleUnit, t.scale)
             /\ models'[m].nodes[d].y = Quot((pointer'.y - t.translateY) * ScaleUnit, t.scale)
             /\ models'[m].nodes[d].vx = 0
             /\ models'[m].nodes[d].vy = 0
             /\ \A i \in 1..Len(models[m].nodes) : i /= d => models'[m].nodes[i] = models[m].nodes[i]
             /\ models'[m].links = models[m].links
             /\ \A k \in 1..MaxModels : k /= m => models'[k] = models[k]
             /\ state' = state
             /\ rendered' = rendered]_vars

\* the pinned node has just been dragged to the pointer under a zoomed and
\* shifted transform, away from where it was and with the other node in motion
C18_Witness ==
    /\ event = "mousemove"
    /\ DraggingHandlers
    /\ rendered.transform.scale /= ScaleUnit
    /\ rendered.transform.translateX /= 0
    /\ LET n == models[handlers.processedData].nodes
           d == handlers.dragNode + 1
       IN /\ n[d].x = Quot((pointer.x - rendered.transform.translateX) * ScaleUnit, rendered.transform.scale)
          /\ n[d].x /= pointer.x
          /\ \E i \in 1..Len(n) : i /= d /\ n[i].vx /= 0

----------------------------------------------------------------------------
(* SpecPan: a pointer that is followed from move to move pans the view    *)
(* over one node, by a middle-button press, a primary-button press with   *)
(* or without Alt, or the Alt key; the translate kept within MaxPan       *)

PanPoints == {Pt(130, 250), Pt(170, 250)}

\* the pointer moves to p
PointerTo(p) == Move(p) /\ PanWindow(state')

\* a button goes down at the pointer
PressAtPointer(buttons, altKey) == handleMouseDown(pointer, buttons, altKey, {Together})

InitPan == InitWith({GraphA}, Containers, {Together})

NextPan ==
    \/ \E jit \in Jitters(state, {Together}) : Commit(jit)
    \/ \E p \in PanPoints : PointerTo(p)
    \/ \E b \in {1, 4}, a \in BOOLEAN : PressAtPointer(b, a)
    \/ handleMouseUp({Together})
    \/ handleKeyDown("Alt", {Together})
    \/ handleKeyUp("Alt", {Together})

SpecPan == InitPan /\ [][NextPan]_vars

\* C19 as claimed: while the handlers pan, a pointer move that follows a
\* render adds the pointer's displacement since its previous position to
\* the translate and changes neither the scale nor a node
C19_PanByDisplacement ==
    [][(event' = "mousemove" /\ handlers.isPanning /\ state = rendered) =>
          /\ state'.transform.translateX - state.transform.translateX = pointer'.x - pointer.x
          /\ state'.transform.translateY - state.transform.translateY = pointer'.y - pointer.y
          /\ state'.transform.scale = state.transform.scale
          /\ models' = models]_vars

----------------------------------------------------------------------------
(* SpecLoop: the frame loop over one node while presses on the node and   *)
(* beside it, releases, zoom-in wheel steps and resizes restart it        *)

LoopPoints == {Pt(110, 250), Pt(150, 250)}

InitLoop == InitWith({GraphA}, Containers, {Together})

NextLoop ==
    \/ \E jit \in Jitters(state, {Together}) : Commit(jit)
    \/ \E f \in frames : Frame(f)
    \/ \E p \in LoopPoints : handleMouseDown(p, 1, FALSE, {Together})
    \/ handleMouseUp({Together})
    \/ \E p \in WheelPoints, zoomIn \in BOOLEAN : Wheel(p, zoomIn)
    \/ \E d \in Containers : Resize(d)

SpecLoop == InitLoop /\ [][NextLoop]_vars

\* the three loops of one simulation step over the nodes of the model a frame captured
OneStep(f) ==
    LET model == models[f.processedData]
        forced == ForceStep(model.nodes, f.dimensions, f.dragNode)
        linked == LinkLoop(forced, model.links, f.dragNode)
    IN Integrate(linked, f.dimensions, f.dragNode)

\* C21: a frame performs exactly one simulation step on the model it
\* captured and leaves exactly one callback pending, whose id animationRef
\* holds; at most one callback is pending at any time, also when the loop
\* is restarted by a press, a release, a wheel step or a resize
C21_OneFramePending ==
    /\ [](Cardinality(frames) <= 1)
    /\ [][event' = "frame" =>
            \E f \in frames :
                /\ frames = {f}
                /\ ticks' = ticks + 1
                /\ models'[f.processedData].nodes = OneStep(f)
                /\ models'[f.processedData].links = models[f.processedData].links
                /\ frames' = {[f EXCEPT !.id = animationRef']}]_vars

\* a frame has just run in a loop that a wheel step and a press on the node
\* restarted, and its successor is the one pending callback
C21_Witness ==
    /\ event = "frame"
    /\ ticks >= 2
    /\ zooms > 0
    /\ rendered.transform.scale /= ScaleUnit
    /\ rendered.dragNode = 0
    /\ frames = {FrameClosure(animationRef, rendered)}

\* C22 as claimed: a frame runs with the drag node and the transform that
\* the handlers last set
C22_FrameSeesLatest ==
    [][event' = "frame" =>
          \A f \in frames : f.dragNode = state.dragNode /\ f.transform = state.transform]_vars

----------------------------------------------------------------------------
(* SpecLive: the frame loop without a bound on its runs, over one node,   *)
(* while presses, releases, resizes and new graph data restart it, until  *)
(* the component is unmounted.  ticks counts the runs modulo 2.  The host *)
(* eventually runs a pending callback and React eventually renders a      *)
(* pending update.                                                        *)

NoNodes == Graph(<<>>, <<>>)

\* the offsets of a build that puts every node two pixels left of the centre
Near == [i \in 1..(MaxNodes + 1) |-> Pt(-2, 0)]

LivePoints == {Pt(150, 250), Pt(110, 250)}

LiveFrame == \E f \in frames : FrameStep(f) /\ ticks' = (ticks + 1) % 2

LiveCommit == Mounted /\ \E jit \in Jitters(state, {Near}) : Commit(jit)

InitLive == InitWith({GraphA}, Containers, {Near})

NextLive ==
    \/ LiveCommit
    \/ LiveFrame
    \/ Mounted /\ \E p \in LivePoints : handleMouseDown(p, 1, FALSE, {Near})
    \/ Mounted /\ handleMouseUp({Near})
    \/ Mounted /\ \E d \in Containers : Resize(d)
    \/ Mounted /\ \E g \in {GraphA, NoNodes} : SetGraphData(g)
    \/ Unmount

SpecLive == InitLive /\ [][NextLive]_vars /\ WF_vars(LiveFrame) /\ WF_vars(LiveCommit)

\* a model with at least one node is installed and the component is mounted
Installed == Mounted /\ state.processedData /= NoModel /\ Len(Current.nodes) >= 1

\* C23: while a model with at least one node is installed and the
\* component is mounted, another simulation tick eventually occurs
C23_TicksForever ==
    \A b \in {0, 1} : [](Installed /\ ticks = b => <>(ticks /= b \/ ~Installed))

\* a tick has just run on a pinned node in a loop that a press restarted
C23_Witness ==
    /\ Installed
    /\ event = "frame"
    /\ ticks = 1
    /\ rendered.isDragging
    /\ \E f \in frames : f.dragNode = 0

----------------------------------------------------------------------------
(* SpecView: the transform over one node under ticks, renders, rebuilds   *)
(* from new graph data, hover, drag and pan moves and at most             *)
(* MaxViewZooms zoom-in wheel steps                                       *)

MaxViewZooms == 1

\* the button goes down on the node, the pointer moves to the centre
ViewPress == Pt(110, 250)
ViewMove == Pt(150, 250)

InitView == InitWith({GraphA}, Containers, {Together})

NextView ==
    \/ \E jit \in Jitters(state, {Together}) : Commit(jit)
    \/ ticks < MaxDragTicks /\ \E f \in frames : Frame(f)
    \/ \E b \in {1, 4} : handleMouseDown(ViewPress, b, FALSE, {Together})
    \/ MouseMove(ViewMove)
    \/ handleMouseUp({Together})
    \/ zooms < MaxViewZooms /\ \E p \in WheelPoints : Wheel(p, TRUE)
    \/ SetGraphData(GraphA)

SpecView == InitView /\ [][NextView]_vars

\* C24: the pending transform changes only in a pan move or a wheel step,
\* and a render shows the pending transform; a tick, a render, a drag
\* move, a hover update and a rebuild from new graph data leave it
C24_TransformOwners ==
    [][/\ state'.transform /= state.transform =>
             \/ event' = "mousemove" /\ handlers.isPanning
             \/ event' \in {"wheelin", "wheelout"}
       /\ rendered'.transform /= rendered.transform =>
             rendered'.transform = state'.transform
       /\ event' \in {"frame", "commit", "graphData"} =>
             state'.transform = state.transform]_vars

\* a render has just rebuilt the model from new graph data, after ticks,
\* under a zoomed view that it keeps
C24_Witness ==
    /\ event = "commit"
    /\ ticks > 0
    /\ state.processedData /= rendered.processedData
    /\ ~rendered.dimensions.fresh
    /\ state.transform.scale /= ScaleUnit
    /\ state.transform = rendered.transform

----------------------------------------------------------------------------
(* SpecRepel: the frame loop over two linked nodes that a build places    *)
(* between 0 and MaxGap tenths of a pixel apart                           *)

MaxGap == 20

\* the offsets of a build that puts the second node gap tenths of a pixel
\* to the right of the first
Gap(gap) == [i \in 1..(MaxNodes + 1) |-> IF i = 1 THEN Pt(0, 0) ELSE [x |-> gap, y |-> 0]]

GapJitters == {Gap(gap) : gap \in 0..MaxGap}

InitRepel == InitWith({GraphAB}, Containers, GapJitters)

NextRepel ==
    \/ \E jit \in Jitters(state, GapJitters) : Commit(jit)
    \/ \E f \in frames : Frame(f)

SpecRepel == InitRepel /\ [][NextRepel]_vars

\* C25 as claimed: for every pair of nodes of a model the loop runs on, the
\* distance the repulsion divides by is at least 1 and the velocity a tick
\* adds to one node for the other has magnitude at most 1000
C25_RepulsionBounded ==
    \A f \in frames :
        LET nodes == models[f.processedData].nodes
        IN \A i, j \in 1..Len(nodes) :
              i /= j =>
                 LET dx == nodes[i].x - nodes[j].x
                     dy == nodes[i].y - nodes[j].y
                     r == Repulsion(nodes[i], nodes[j])
                 IN /\ Dist(dx, dy) >= Unit
                    /\ Sqrt(r.vx * r.vx + r.vy * r.vy) <= 1000 * Unit

----------------------------------------------------------------------------
(* SpecHover: the tooltips over two linked nodes, or one node, under      *)
(* moves over a node and over the link, presses, drags, releases, ticks   *)
(* and new graph data with the first node alone; during a pan the pointer *)
(* stays where the button went down                                       *)

HoverPoints == {Pt(110, 250), Pt(150, 250)}

\* the pointer moves to p, not leaving its place during a pan
HoverMove(p) == (handlers.isPanning => p = handlers.lastMousePos) /\ MouseMove(p)

InitHover == InitWith({GraphAB}, Containers, {Apart})

NextHover ==
    \/ \E jit \in Jitters(state, {Apart}) : Commit(jit)
    \/ ticks < MaxDragTicks /\ \E f \in frames : Frame(f)
    \/ \E p \in HoverPoints : HoverMove(p)
    \/ \E p \in HoverPoints, b \in {1, 4} : handleMouseDown(p, b, FALSE, {Apart})
    \/ handleMouseUp({Apart})
    \/ SetGraphData(GraphA)

SpecHover == InitHover /\ [][NextHover]_vars

\* at most one of the two tooltips of r is set
OneTooltip(r) == ~(r.tooltipNode.on /\ r.tooltipLink.on)

\* the link tooltip of r, if set, names two nodes of model
NamesNodesOf(r, model) ==
    r.tooltipLink.on =>
        \E i, j \in 1..Len(model.nodes) :
            /\ model.nodes[i].id = r.tooltipLink.source
            /\ model.nodes[j].id = r.tooltipLink.target

\* the step changes a tooltip
HoverChanges ==
    \/ state'.tooltipNode /= state.tooltipNode
    \/ state'.tooltipLink /= state.tooltipLink

\* C26 as claimed: at most one tooltip is set, a set link tooltip names two
\* nodes of the current model, and the tooltips change only in a pointer
\* move in the Idle state
C26_HoverTagged ==
    /\ [](OneTooltip(state) /\ OneTooltip(rendered))
    /\ [](NamesNodesOf(state, Current))
    /\ [][HoverChanges => (event' = "mousemove" /\ IdleHandlers)]_vars

\* C26: at most one tooltip is set, the tooltips change only in a pointer
\* move in the Idle state, and a link tooltip that such a move sets names
\* two nodes of the model the handlers hold at that move; it keeps those
\* names when the model is replaced
C26_HoverSetByIdleMove ==
    /\ [](OneTooltip(state) /\ OneTooltip(rendered))
    /\ [][HoverChanges => (event' = "mousemove" /\ IdleHandlers)]_vars
    /\ [][event' = "mousemove" /\ IdleHandlers =>
            NamesNodesOf(state', models[handlers.processedData])]_vars

\* the link tooltip names a node that the current model, built from new
\* graph data, does not have
C26_Witness ==
    /\ state.tooltipLink.on
    /\ ~state.tooltipNode.on
    /\ state = rendered
    /\ Len(Current.nodes) = 1
    /\ ~NamesNodesOf(state, Current)

----------------------------------------------------------------------------
(* SpecSim: the frame loop under presses, drags and releases, in a wide   *)
(* and in a narrow container                                              *)

SimPoints == {Pt(110, 250), Pt(150, 250), Pt(5, 5)}
SimContainers == {[width |-> 300 * Unit, height |-> 500 * Unit],
                  [width |-> 30 * Unit, height |-> 500 * Unit]}

InitSim == InitWith({GraphAB}, SimContainers, {Apart})

NextSim ==
    \/ \E jit \in Jitters(state, {Apart}) : Commit(jit)
    \/ \E f \in frames : Frame(f)
    \/ \E p \in SimPoints : handleMouseDown(p, 1, FALSE, {Apart})
    \/ \E p \in SimPoints : handleMouseMove(p) /\ UNCHANGED <<pointer, appVars>>
    \/ handleMouseUp({Apart})

SpecSim == InitSim /\ [][NextSim]_vars

\* node lies within [20, width - 20] x [20, height - 20]
InBounds(node, dims) ==
    /\ 20 * Unit <= node.x /\ node.x <= dims.width - 20 * Unit
    /\ 20 * Unit <= node.y /\ node.y <= dims.height - 20 * Unit

\* C4 as claimed: once a tick has run, every node of the model in use that is
\* not the drag node lies within the bounds of the viewport
C4_UnpinnedInBounds ==
    ticks >= 1 =>
        \A i \in 1..Len(Current.nodes) :
            (i - 1) /= state.dragNode => InBounds(Current.nodes[i], state.dimensions)

\* C4: right after a tick, in a viewport at least 40 wide, every node of the
\* model the tick ran on that is not the drag node lies within the bounds of
\* the dimensions the tick used
C4_InBoundsAfterTick ==
    event = "frame" =>
        \A f \in frames :
            f.dimensions.width >= 40 * Unit =>
                \A i \in 1..Len(models[f.processedData].nodes) :
                    (i - 1) /= state.dragNode =>
                        InBounds(models[f.processedData].nodes[i], f.dimensions)

\* a tick has just clamped a free node to the right edge
C4_Witness ==
    /\ event = "frame"
    /\ \E f \in frames :
          /\ f.dimensions.width >= 40 * Unit
          /\ \E i \in 1..Len(models[f.processedData].nodes) :
                /\ (i - 1) /= state.dragNode
                /\ models[f.processedData].nodes[i].x = f.dimensions.width - 20 * Unit

\* C5: a tick leaves the drag node of every model as it was
C5_PinnedUntouched ==
    [][(event' = "frame" /\ state.dragNode /= NoNode) =>
          \A m \in 1..MaxModels :
              state.dragNode < Len(models[m].nodes) =>
                  models'[m].nodes[state.dragNode + 1] = models[m].nodes[state.dragNode + 1]]_vars

\* a tick has just run on a model while one of its nodes, moved by a drag to
\* the pointer at (5, 5), was the drag node
C5_Witness ==
    /\ event = "frame"
    /\ state.dragNode /= NoNode
    /\ \E f \in frames :
          /\ state.dragNode < Len(models[f.processedData].nodes)
          /\ models[f.processedData].nodes[state.dragNode + 1].x = 5 * Unit
          /\ Len(models[f.processedData].nodes) >= 2

\* the point is inside some node's hit radius and inside some link's corridor
InNodeAndCorridor(model, t, x, y) ==
    /\ \E i \in 1..Len(model.nodes) : NodeHit(model.nodes[i], x, y)
    /\ \E i \in 1..Len(model.links) : LinkHit(model.nodes, model.links[i], t, x, y)

\* C7: a pointer move in Idle over a point in both a node's radius and a link's
\* corridor sets the node tooltip, to a node containing the point, and no link tooltip
C7_NodeBeforeLink ==
    [][\A p \in SimPoints :
          LET w == screenToGraph(handlers.transform, p.x, p.y)
              model == models[handlers.processedData]
          IN (/\ event' = "mousemove"
              /\ IdleHandlers
              /\ InNodeAndCorridor(model, handlers.transform, w.x, w.y)
              /\ handleMouseMove(p))
             => /\ state'.tooltipNode.on
                /\ ~state'.tooltipLink.on
                /\ \E i \in 1..Len(model.nodes) :
                      /\ NodeHit(model.nodes[i], w.x, w.y)
                      /\ state'.tooltipNode.node = model.nodes[i].id]_vars

\* the pointer has just moved, in Idle, over a point in both, and the node is shown
C7_Witness ==
    /\ event = "mousemove"
    /\ IdleHandlers
    /\ state.tooltipNode.on
    /\ \E p \in SimPoints :
          LET w == screenToGraph(handlers.transform, p.x, p.y)
          IN /\ InNodeAndCorridor(models[handlers.processedData], handlers.transform, w.x, w.y)
             /\ state.tooltipNode.x = ToScreenX(handlers.transform, models[handlers.processedData].nodes[1].x)
             /\ state.tooltipNode.node = models[handlers.processedData].nodes[1].id

----------------------------------------------------------------------------
(* The book history (src/frontend/utils/bookHistory.ts).  localStorage     *)
(* holds the JSON text of the item list under one key; `history` is the    *)
(* list that text parses to, the empty list when the key is absent.  The   *)
(* functions run in the browser, with a localStorage that accepts the      *)
(* text.  An item's timestamp, which none of the functions reads, is left  *)
(* out.  A title is a sequence of words, <<>> for no title.                *)

MAX_HISTORY_ITEMS == 20

\* the graph component's variables, which the page's actions leave alone
graphVars == <<state, rendered, models, handlers, frames, animationRef, simCleanup, ticks, zooms, pointer>>

\* historyItems.filter(item => item.id !== bookId)
WithoutBook(h, bookId) == SelectSeq(h, LAMBDA item : item.id /= bookId)

\* a save that does not remove the book's earlier item
saveBookKeepingOld(h, bookId, bookTitle) ==
    LET item == [id |-> bookId,
                 title |-> IF bookTitle /= <<>> THEN bookTitle ELSE <<"Book #", bookId>>]
        historyItems == <<item>> \o h
    IN IF Len(historyItems) > MAX_HISTORY_ITEMS
       THEN SubSeq(historyItems, 1, MAX_HISTORY_ITEMS)
       ELSE historyItems

\* saveBookToHistory(bookId, bookTitle) on the stored list h: the list stored
saveBookToHistory(h, bookId, bookTitle) ==
    LET item == [id |-> bookId,
                 title |-> IF bookTitle /= <<>> THEN bookTitle ELSE <<"Book #", bookId>>]
        historyItems == <<item>> \o WithoutBook(h, bookId)
    IN IF Len(historyItems) > MAX_HISTORY_ITEMS
       THEN SubSeq(historyItems, 1, MAX_HISTORY_ITEMS)
       ELSE historyItems

\* clearBookHistory(): the key is removed, the history reads as the empty list
clearBookHistory == <<>>

----------------------------------------------------------------------------
(* SpecHistory: books are saved to the history and the history is         *)
(* cleared.  Books are saved by rising number, one more than the greatest *)
(* number in the history, and the books of Resaved are saved at any time. *)

MaxBooks == 21
Books == 1..MaxBooks
Resaved == {1, 2}

\* the title in the book's metadata: even-numbered books have none
TitleOf(bookId) == IF bookId % 2 = 0 THEN <<>> ELSE <<"Title of", bookId>>

\* the greatest book number in h, 0 in the empty list
Newest(h) == IF h = <<>> THEN 0
             ELSE CHOOSE b \in {h[i].id : i \in 1..Len(h)} :
                      \A i \in 1..Len(h) : h[i].id <= b

\* saveBookToHistory is called for the book
Save(bookId) ==
    /\ event' = "saveBookToHistory"
    /\ history' = saveBookToHistory(history, bookId, TitleOf(bookId))
    /\ UNCHANGED <<graphVars, streams, sources, invoked, page, tasks>>

\* clearBookHistory is called
Clear ==
    /\ event' = "clearBookHistory"
    /\ history' = clearBookHistory
    /\ UNCHANGED <<graphVars, streams, sources, invoked, page, tasks>>

InitHistory == InitGraph({GraphA}, Containers, {Together}) /\ InitApp

NextHistory ==
    \/ \E b \in Books : (b \in Resaved \/ b = Newest(history) + 1) /\ Save(b)
    \/ Clear

SpecHistory == InitHistory /\ [][NextHistory]_vars

\* no two items of h have the same id
NoDuplicates(h) == \A i, j \in 1..Len(h) : h[i].id = h[j].id => i = j

\* the place of the item in h, 0 when h does not hold it
PlaceIn(h, item) == IF \E i \in 1..Len(h) : h[i] = item
                    THEN CHOOSE i \in 1..Len(h) : h[i] = item
                    ELSE 0

\* every item of new after its first is an item of old, and they follow one
\* another in new as they do in old
KeepsOrder(old, new) ==
    /\ \A i \in 2..Len(new) : PlaceIn(old, new[i]) > 0
    /\ \A i \in 2..(Len(new) - 1) : PlaceIn(old, new[i]) < PlaceIn(old, new[i + 1])

----------------------------------------------------------------------------
(* The event streams: BookFetchEventStream (src/frontend/utils/api.ts)    *)
(* and AnalysisEventStream (src/unnamed/part_000), which differ in their  *)
(* URL only.  `streams` lists the instances and `sources` the EventSource *)
(* objects made so far; a source keeps the instance whose handlers it     *)
(* carries and its readyState.  The operations are functions of a record  *)
(* N that holds both lists.  0 is null.                                   *)

\* the two lists as they are now
Net == [streams |-> streams, sources |-> sources]

\* new BookFetchEventStream(bookId), new AnalysisEventStream(bookId)
NewStream(api, bookId) ==
    [api |-> api, bookId |-> bookId, eventSource |-> 0, callbacks |-> <<>>, connected |-> FALSE]

\* N with one more instance
WithStream(N, stream) == [N EXCEPT !.streams = Append(@, stream)]

\* connect() of instance i
connect(N, i) ==
    IF N.streams[i].connected THEN N
    ELSE [N EXCEPT !.streams[i].eventSource = Len(N.sources) + 1,
                   !.sources = Append(@, [stream |-> i, readyState |-> "connecting"])]

\* disconnect() of instance i
disconnect(N, i) ==
    IF N.streams[i].eventSource /= 0
    THEN [N EXCEPT !.streams[i].eventSource = 0,
                   !.streams[i].connected = FALSE,
                   !.sources[N.streams[i].eventSource].readyState = "closed"]
    ELSE N

\* subscribe(callback) of instance i
subscribe(N, i, callback) ==
    LET pushed == [N EXCEPT !.streams[i].callbacks = Append(@, callback)]
    IN IF ~pushed.streams[i].connected THEN connect(pushed, i) ELSE pushed

\* the function returned by subscribe(callback) of instance i
unsubscribe(N, i, callback) ==
    LET filtered == [N EXCEPT !.streams[i].callbacks = SelectSeq(@, LAMBDA cb : cb /= callback)]
    IN IF Len(filtered.streams[i].callbacks) = 0 THEN disconnect(filtered, i) ELSE filtered

\* onopen of source e
onopen(N, e) ==
    [N EXCEPT !.streams[N.sources[e].stream].connected = TRUE,
              !.sources[e].readyState = "open"]

\* onmessage of source e, after its callbacks have run and left N
afterCallbacks(N, e, status) ==
    IF status \in {"complete", "error"} THEN disconnect(N, N.sources[e].stream) ELSE N

\* onerror of source e, which the browser has left in readyState
onerror(N, e, readyState) ==
    disconnect([N EXCEPT !.sources[e].readyState = readyState], N.sources[e].stream)

\* the members of sequence s
Members(s) == {s[k] : k \in 1..Len(s)}

\* the sources of instance i that are not closed
Unclosed(i) == {e \in 1..Len(sources) : sources[e].stream = i /\ sources[e].readyState /= "closed"}

----------------------------------------------------------------------------
(* SpecStream: one event stream instance under connect, subscribe,        *)
(* unsubscribe and disconnect calls and the open, message and error       *)
(* events of its sources.  The callbacks do nothing but get invoked; a    *)
(* callback is subscribed while it is not subscribed, a returned          *)
(* unsubscribe function is called while its callback is subscribed, and   *)
(* at most MaxSources sources are made.                                   *)

MaxSources == 3
Callbacks == {"first", "second"}
Statuses == {"processing", "complete", "error"}

\* the streams take the step to N; the page and the history stay
StreamStep(name, N, calls) ==
    /\ event' = name
    /\ streams' = N.streams
    /\ sources' = N.sources
    /\ invoked' = calls
    /\ UNCHANGED <<graphVars, history, page, tasks>>

Connect == /\ Len(sources) < MaxSources
           /\ StreamStep("connect", connect(Net, 1), <<>>)

Disconnect == StreamStep("disconnect", disconnect(Net, 1), <<>>)

Subscribe(callback) ==
    /\ Len(sources) < MaxSources
    /\ callback \notin Members(streams[1].callbacks)
    /\ StreamStep("subscribe", subscribe(Net, 1, callback), <<>>)

Unsubscribe(callback) ==
    /\ callback \in Members(streams[1].callbacks)
    /\ StreamStep("unsubscribe", unsubscribe(Net, 1, callback), <<>>)

\* the connection of source e is established
Open(e) ==
    /\ sources[e].readyState = "connecting"
    /\ StreamStep("open", onopen(Net, e), <<>>)

\* source e delivers a message with the status
Message(e, status) ==
    /\ sources[e].readyState = "open"
    /\ StreamStep("message", afterCallbacks(Net, e, status),
                  [k \in 1..Len(streams[sources[e].stream].callbacks) |->
                      [callback |-> streams[sources[e].stream].callbacks[k], status |-> status]])

\* the connection of source e fails: the browser reconnects or gives up
Error(e, readyState) ==
    /\ sources[e].readyState \in {"connecting", "open"}
    /\ StreamStep("error", onerror(Net, e, readyState), <<>>)

InitStream ==
    /\ InitGraph({GraphA}, Containers, {Together})
    /\ history = <<>>
    /\ \E api \in {"fetch-stream", "analysis-stream"} : streams = <<NewStream(api, 1787)>>
    /\ sources = <<>>
    /\ invoked = <<>>
    /\ page = InitialPage
    /\ tasks = {}

NextStream ==
    \/ Connect
    \/ Disconnect
    \/ \E callback \in Callbacks : Subscribe(callback)
    \/ \E callback \in Callbacks : Unsubscribe(callback)
    \/ \E e \in 1..Len(sources) : Open(e)
    \/ \E e \in 1..Len(sources), status \in Statuses : Message(e, status)
    \/ \E e \in 1..Len(sources), readyState \in {"connecting", "closed"} : Error(e, readyState)

SpecStream == InitStream /\ [][NextStream]_vars

\* C28: an instance has at most one source that is not closed, and none while
\* it is disconnected
C28_OneOpenSource ==
    \A i \in 1..Len(streams) :
        /\ Cardinality(Unclosed(i)) <= 1
        /\ streams[i].eventSource = 0 => Unclosed(i) = {}

\* C29: a message invokes the callbacks subscribed at that moment, each once,
\* and none while the instance is disconnected; a message with status complete
\* or error leaves the source closed and the instance disconnected, and so does
\* the unsubscription of the last callback
C29_DispatchThenDisconnect ==
    [][/\ \A e \in 1..Len(sources), status \in Statuses :
             (event' = "message" /\ Message(e, status)) =>
                 LET i == sources[e].stream
                 IN /\ Len(invoked') = Len(streams[i].callbacks)
                    /\ \A k \in 1..Len(invoked') :
                          invoked'[k] = [callback |-> streams[i].callbacks[k], status |-> status]
                    /\ streams[i].eventSource = 0 => invoked' = <<>>
                    /\ status \in {"complete", "error"} =>
                          /\ sources'[e].readyState = "closed"
                          /\ streams'[i].eventSource = 0
                          /\ ~streams'[i].connected
       /\ \A i \in 1..Len(streams) :
             (event' = "unsubscribe" /\ streams'[i].callbacks = <<>> /\ streams[i].callbacks /= <<>>) =>
                 /\ streams'[i].eventSource = 0
                 /\ ~streams'[i].connected
                 /\ \A e \in 1..Len(sources') :
                       sources'[e].stream = i => sources'[e].readyState = "closed"]_vars

----------------------------------------------------------------------------
(* The Home page (src/unnamed/part_001).  An update of the page's state   *)
(* is rendered before the next event.  A request that has been sent and   *)
(* whose promise is not settled is a record in `tasks`: the request, its  *)
(* book, the submission that led to it, and the code that continues when  *)
(* it settles (`from`: handleSubmit, the fetch stream's callback or the   *)
(* analysis stream's callback).  The callback a submission subscribes is  *)
(* named by the submission's number.  The operations are functions of a   *)
(* record W of the page, the streams, the tasks and the history.          *)

World == [page |-> page, streams |-> streams, sources |-> sources, tasks |-> tasks, history |-> history]

Task(kind, bookId, submission, from) ==
    [kind |-> kind, bookId |-> bookId, submission |-> submission, from |-> from]

\* isProcessing, which disables the form, the buttons and the history list
isProcessing(P) ==
    P.loading \/ P.bookFetchStatus = "processing" \/ P.analysisStatus = "processing"

cleanupBookFetchStream(W) ==
    LET u == W.page.bookFetchUnsubscribeRef
        unsubscribed == IF u /= NoUnsubscribe
                        THEN [unsubscribe(W, u.stream, u.callback) EXCEPT
                                 !.page.bookFetchUnsubscribeRef = NoUnsubscribe]
                        ELSE W
    IN IF unsubscribed.page.bookFetchStreamRef /= 0
       THEN [disconnect(unsubscribed, unsubscribed.page.bookFetchStreamRef) EXCEPT
                !.page.bookFetchStreamRef = 0]
       ELSE unsubscribed

cleanupAnalysisStream(W) ==
    LET u == W.page.analysisUnsubscribeRef
        unsubscribed == IF u /= NoUnsubscribe
                        THEN [unsubscribe(W, u.stream, u.callback) EXCEPT
                                 !.page.analysisUnsubscribeRef = NoUnsubscribe]
                        ELSE W
    IN IF unsubscribed.page.analysisStreamRef /= 0
       THEN [disconnect(unsubscribed, unsubscribed.page.analysisStreamRef) EXCEPT
                !.page.analysisStreamRef = 0]
       ELSE unsubscribed

\* setupBookFetchStream(bookId), subscribing the callback
setupBookFetchStream(W, bookId, callback) ==
    LET i == Len(W.streams) + 1
        made == [WithStream(W, NewStream("fetch-stream", bookId)) EXCEPT !.page.bookFetchStreamRef = i]
    IN [subscribe(made, i, callback) EXCEPT
           !.page.bookFetchUnsubscribeRef = [stream |-> i, callback |-> callback]]

\* setupAnalysisStream(bookId), subscribing the callback
setupAnalysisStream(W, bookId, callback) ==
    LET i == Len(W.streams) + 1
        made == [WithStream(W, NewStream("analysis-stream", bookId)) EXCEPT !.page.analysisStreamRef = i]
    IN [subscribe(made, i, callback) EXCEPT
           !.page.analysisUnsubscribeRef = [stream |-> i, callback |-> callback]]

\* startBookAnalysis(bookId) up to its first await
startBookAnalysis(W, bookId, submission, from) ==
    [W EXCEPT !.tasks = @ \cup {Task("startAnalysis", bookId, submission, from)}]

\* the end of startBookAnalysis: handleSubmit, which awaited it, runs its finally
Returned(W, from) == IF from = "handleSubmit" THEN [W EXCEPT !.page.loading = FALSE] ELSE W

\* handleSubmit up to its first await
submitted(W) ==
    IF W.page.bookId = 0
    THEN [W EXCEPT !.page.error = "Please enter a valid Project Gutenberg book ID"]
    ELSE LET reset == [W EXCEPT !.page.loading = TRUE,
                                !.page.error = "null",
                                !.page.bookData = 0,
                                !.page.bookFetchStatus = "null",
                                !.page.analysisStatus = "null",
                                !.page.analysisData = 0,
                                !.page.submissions = @ + 1]
             cleaned == cleanupAnalysisStream(cleanupBookFetchStream(reset))
         IN [cleaned EXCEPT !.tasks = @ \cup {Task("fetchBook", W.page.bookId, cleaned.page.submissions, "handleSubmit")}]

\* handleSubmit after fetchBook has settled: the response's status, "rejected"
\* for a rejected promise
afterFetchBook(W, t, status) ==
    CASE status = "complete" ->
             [W EXCEPT !.tasks = @ \cup {Task("getBookContent", t.bookId, t.submission, "handleSubmit")}]
      [] status = "processing" ->
             [setupBookFetchStream(W, t.bookId, t.submission) EXCEPT !.page.loading = FALSE]
      [] status = "error" ->
             [W EXCEPT !.page.error = "Failed to fetch book", !.page.loading = FALSE]
      [] OTHER ->
             [W EXCEPT !.page.error = "An error occurred", !.page.loading = FALSE]

\* the code after getBookContent has settled, in handleSubmit and in the
\* fetch stream's callback (then or catch, and finally)
afterGetBookContent(W, t, resolved) ==
    LET got == [W EXCEPT !.page.bookData = t.bookId,
                         !.history = saveBookToHistory(@, t.bookId, TitleOf(t.bookId))]
        failed == [W EXCEPT !.page.error = "An error occurred"]
    IN IF t.from = "handleSubmit"
       THEN IF resolved
            THEN startBookAnalysis(got, t.bookId, t.submission, "handleSubmit")
            ELSE [failed EXCEPT !.page.loading = FALSE]
       ELSE cleanupBookFetchStream(
                IF resolved
                THEN startBookAnalysis([got EXCEPT !.page.bookFetchStatus = "null"],
                                       t.bookId, t.submission, "fetchStream")
                ELSE failed)

\* startBookAnalysis after startAnalysis has settled
afterStartAnalysis(W, t, status) ==
    LET set == [W EXCEPT !.page.analysisStatus = status]
    IN CASE status = "complete" ->
                [set EXCEPT !.tasks = @ \cup {Task("getAnalysisResults", t.bookId, t.submission, t.from)}]
         [] status = "processing" ->
                Returned(setupAnalysisStream(set, t.bookId, t.submission), t.from)
         [] status = "error" ->
                Returned([set EXCEPT !.page.error = "Analysis failed"], t.from)
         [] OTHER ->
                Returned([W EXCEPT !.page.error = "An error occurred"], t.from)

\* the code after getAnalysisResults has settled, in startBookAnalysis and in
\* the analysis stream's callback (then or catch, and finally); the outcome
\* is "results", "still in progress" for a rejection with that message, or
\* "rejected"
afterGetAnalysisResults(W, t, outcome) ==
    IF t.from = "analysisStream"
    THEN cleanupAnalysisStream(
             CASE outcome = "results" -> [W EXCEPT !.page.analysisData = t.bookId]
               [] outcome = "still in progress" -> W
               [] OTHER -> [W EXCEPT !.page.error = "Error fetching results"])
    ELSE Returned(IF outcome = "results"
                  THEN [W EXCEPT !.page.analysisData = t.bookId]
                  ELSE [W EXCEPT !.page.error = "An error occurred"],
                  t.from)

\* the callback subscribed in setupBookFetchStream(bookId)
bookFetchCallback(W, bookId, submission, status) ==
    LET set == [W EXCEPT !.page.bookFetchStatus = status]
    IN CASE status = "complete" ->
                [set EXCEPT !.tasks = @ \cup {Task("getBookContent", bookId, submission, "fetchStream")}]
         [] status = "error" ->
                cleanupBookFetchStream([set EXCEPT !.page.error = "Book fetch failed"])
         [] OTHER -> set

\* the callback subscribed in setupAnalysisStream(bookId)
analysisCallback(W, bookId, submission, status) ==
    LET set == [W EXCEPT !.page.analysisStatus = status]
    IN CASE status = "complete" ->
                [set EXCEPT !.tasks = @ \cup {Task("getAnalysisResults", bookId, submission, "analysisStream")}]
         [] status = "error" ->
                cleanupAnalysisStream([set EXCEPT !.page.error = "Analysis failed"])
         [] OTHER -> set

\* this.callbacks.forEach(callback => callback(data)) of instance i, over the
\* callbacks it had when the message came
RECURSIVE forEachCallback(_, _, _, _)
forEachCallback(W, i, callbacks, status) ==
    IF callbacks = <<>> THEN W
    ELSE forEachCallback(
             IF W.streams[i].api = "fetch-stream"
             THEN bookFetchCallback(W, W.streams[i].bookId, Head(callbacks), status)
             ELSE analysisCallback(W, W.streams[i].bookId, Head(callbacks), status),
             i, Tail(callbacks), status)

----------------------------------------------------------------------------
(* SpecSubmit: the page under at most MaxSubmissions submissions of the   *)
(* form, changes of the book id between the initial id and the empty id,  *)
(* the settling of its requests and the events of its streams' sources.   *)

MaxSubmissions == 2
PageBooks == {0, 1787}

\* the page, its streams, its tasks and the history take the step to W
PageStep(name, W) ==
    /\ event' = name
    /\ page' = W.page
    /\ streams' = W.streams
    /\ sources' = W.sources
    /\ tasks' = W.tasks
    /\ history' = W.history
    /\ invoked' = <<>>
    /\ UNCHANGED graphVars

\* setBookId: the input, a popular-book button or a history item
SetBookId(bookId) ==
    /\ ~isProcessing(page)
    /\ bookId /= page.bookId
    /\ PageStep("setBookId", [World EXCEPT !.page.bookId = bookId])

\* the form is submitted
handleSubmit ==
    /\ ~isProcessing(page)
    /\ page.submissions < MaxSubmissions
    /\ PageStep("handleSubmit", submitted(World))

\* the request of task t settles
Settle(t, outcome) ==
    LET W == [World EXCEPT !.tasks = @ \ {t}]
    IN CASE t.kind = "fetchBook" ->
                /\ outcome \in {"complete", "processing", "error", "rejected"}
                /\ PageStep("fetchBook", afterFetchBook(W, t, outcome))
         [] t.kind = "getBookContent" ->
                /\ outcome \in {"resolved", "rejected"}
                /\ PageStep("getBookContent", afterGetBookContent(W, t, outcome = "resolved"))
         [] t.kind = "startAnalysis" ->
                /\ outcome \in {"complete", "processing", "error", "rejected"}
                /\ PageStep("startAnalysis", afterStartAnalysis(W, t, outcome))
         [] t.kind = "getAnalysisResults" ->
                /\ outcome \in {"results", "still in progress", "rejected"}
                /\ PageStep("getAnalysisResults", afterGetAnalysisResults(W, t, outcome))

Outcomes == {"complete", "processing", "error", "rejected", "resolved", "results", "still in progress"}

\* source e delivers a message with the status to the page's callbacks
PageMessage(e, status) ==
    /\ sources[e].readyState = "open"
    /\ PageStep("message",
                afterCallbacks(forEachCallback(World, sources[e].stream,
                                               streams[sources[e].stream].callbacks, status),
                               e, status))

InitSubmit == InitGraph({GraphA}, Containers, {Together}) /\ InitApp

NextSubmit ==
    \/ \E bookId \in PageBooks : SetBookId(bookId)
    \/ handleSubmit
    \/ \E t \in tasks, outcome \in Outcomes : Settle(t, outcome)
    \/ \E e \in 1..Len(sources) : Open(e)
    \/ \E e \in 1..Len(sources), status \in Statuses : PageMessage(e, status)
    \/ \E e \in 1..Len(sources), readyState \in {"connecting", "closed"} : Error(e, readyState)

SpecSubmit == InitSubmit /\ [][NextSubmit]_vars

\* the streams that have a subscribed callback or hold a source
Live == {i \in 1..Len(streams) : streams[i].callbacks /= <<>> \/ streams[i].eventSource /= 0}

\* C27: when the book-content request of a fetch stream's callback settles, its
\* continuation leaves every stream subscribed by a later submission as it is
\* and, once a later submission has started, leaves the book data as they are;
\* a submission starts only when no request is pending and no stream is live
C27_StaleCompletionsHarmless ==
    [][/\ event' = "getBookContent" =>
             \A t \in tasks \ tasks' :
                 t.from = "fetchStream" =>
                     /\ \A i \in 1..Len(streams) :
                           (streams[i].callbacks /= <<>> /\ Head(streams[i].callbacks) > t.submission)
                               => streams'[i] = streams[i]
                     /\ t.submission < page.submissions => page'.bookData = page.bookData
       /\ (event' = "handleSubmit" /\ page'.submissions > page.submissions) =>
             (tasks = {} /\ Live = {})]_vars

====
